---------------------------- MODULE Spec2Model ----------------------------
(***************************************************************************)
(* A model of py-atom-unsaved-notes: the byte-level extraction of unsaved  *)
(* Atom buffers from LevelDB files (src/src/utils.py) and the aggregation  *)
(* loop of the command line entry point (src/src/cli.py).                  *)
(*                                                                         *)
(* Bytes are integers 0..255, byte strings are sequences of bytes, text is *)
(* a sequence of Unicode code points.  Python offsets are 0-based: the     *)
(* byte data[i] of the source is data[i + 1] here (operator At).           *)
(***************************************************************************)
EXTENDS Integers, Sequences, FiniteSets, TLC

VARIABLES
    \* ---- decode_varint_length, run on its own
    v_pc, v_data, v_offset, v_result,
    \* ---- normalize_text and the extractor's own clean-up, run on one blob
    n_pc, n_blob, n_text, n_again, n_clean, n_recorded, n_written,
    \* ---- extract_buffers_by_id, run on one buffer
    e_pc, e_recs, e_data, e_ids, e_texts, e_last,
    \* ---- main(): the aggregation loop over the storage files
    pc, files, fidx, all_buffers, buffer_order, all_grammars,
    \* ---- is_internal_buffer, run on one text
    i_pc, i_text, i_result,
    \* ---- main(): the configuration, the export loop and the way the run ends
    cfg, force_ext, eidx, exported_count, out_dir, written, exit_status, summary

v_vars == <<v_pc, v_data, v_offset, v_result>>
n_vars == <<n_pc, n_blob, n_text, n_again, n_clean, n_recorded, n_written>>
e_vars == <<e_pc, e_recs, e_data, e_ids, e_texts, e_last>>
m_vars == <<pc, files, fidx, all_buffers, buffer_order, all_grammars>>
i_vars == <<i_pc, i_text, i_result>>
r_vars == <<cfg, force_ext, eidx, exported_count, out_dir, written, exit_status, summary>>
vars == <<v_vars, n_vars, e_vars, m_vars, i_vars, r_vars>>

(***************************************************************************)
(* Python's sequence primitives                                            *)
(***************************************************************************)
Min(a, b) == IF a <= b THEN a ELSE b

\* data[i] with a 0-based index that is in range
At(data, i) == data[i + 1]

\* data[a:b] for 0 <= a: both ends are clamped to the length (a slice never fails)
PySlice(data, a, b) ==
    LET hi == Min(b, Len(data))
    IN  IF a >= hi THEN << >> ELSE SubSeq(data, a + 1, hi)

\* n copies of the byte b
Repeat(b, n) == [i \in 1..n |-> b]

\* the code's dictionaries: a function on the set of its keys
EmptyDict == [k \in {} |-> 0]
DictSet(d, k, v) == [x \in (DOMAIN d) \cup {k} |-> IF x = k THEN v ELSE d[x]]
\* dict.update(other)
DictUpdate(d, other) ==
    [x \in (DOMAIN d) \cup (DOMAIN other) |-> IF x \in DOMAIN other THEN other[x] ELSE d[x]]

(***************************************************************************)
(* decode_varint_length (src/src/utils.py:48-63).  The result carries, as  *)
(* reads, the 0-based indices of data the call has read: data[offset] at   *)
(* line 53 and data[offset + 1] at line 61.  first_byte & 0x7F is          *)
(* first_byte % 128 and second_byte << 7 is second_byte * 128; the two     *)
(* have no bit in common, so | adds them.                                  *)
(***************************************************************************)
HighBit == 128

DecodeNoSecondCheck(data, offset) ==
    IF offset >= Len(data)
    THEN [length |-> 0, consumed |-> 0, reads |-> {}]
    ELSE LET first_byte == At(data, offset)
         IN  IF first_byte < HighBit
             THEN [length |-> first_byte, consumed |-> 1, reads |-> {offset}]
             ELSE LET second_byte == IF offset + 1 < Len(data) THEN At(data, offset + 1) ELSE 0
                  IN  [length   |-> (first_byte % HighBit) + second_byte * HighBit,
                       consumed |-> 2,
                       reads    |-> {offset, offset + 1}]

DecodeShiftEight(data, offset) ==
    IF offset >= Len(data)
    THEN [length |-> 0, consumed |-> 0, reads |-> {}]
    ELSE LET first_byte == At(data, offset)
         IN  IF first_byte < HighBit
             THEN [length |-> first_byte, consumed |-> 1, reads |-> {offset}]
             ELSE IF offset + 1 >= Len(data)
                  THEN [length |-> 0, consumed |-> 0, reads |-> {offset}]
                  ELSE LET second_byte == At(data, offset + 1)
                       IN  [length   |-> (first_byte % HighBit) + second_byte * 256,
                            consumed |-> 2,
                            reads    |-> {offset, offset + 1}]

decode_varint_length(data, offset) ==
    IF offset >= Len(data)
    THEN [length |-> 0, consumed |-> 0, reads |-> {}]
    ELSE LET first_byte == At(data, offset)
         IN  IF first_byte < HighBit
             THEN [length |-> first_byte, consumed |-> 1, reads |-> {offset}]
             ELSE IF offset + 1 >= Len(data)
                  THEN [length |-> 0, consumed |-> 0, reads |-> {offset}]
                  ELSE LET second_byte == At(data, offset + 1)
                       IN  [length   |-> (first_byte % HighBit) + second_byte * HighBit,
                            consumed |-> 2,
                            reads    |-> {offset, offset + 1}]

(***************************************************************************)
(* bytes.decode("utf-8", errors=...) as CPython does it: a lead byte asks  *)
(* for 0..3 continuation bytes; when they are all there and valid the      *)
(* sequence is one code point, otherwise the lead byte and the valid       *)
(* continuation bytes after it are one error, which errors="replace" turns *)
(* into U+FFFD and errors="ignore" drops.  Neither handler raises.         *)
(***************************************************************************)
ReplacementChar == 65533

\* continuation bytes the lead byte b asks for; -1: b starts no sequence
ContNeeded(b) ==
    IF b < 128 THEN 0
    ELSE IF b >= 194 /\ b <= 223 THEN 1
    ELSE IF b >= 224 /\ b <= 239 THEN 2
    ELSE IF b >= 240 /\ b <= 244 THEN 3
    ELSE -1

\* whether b may be the k-th continuation byte after lead
ValidCont(lead, k, b) ==
    IF k = 1 /\ lead = 224 THEN b >= 160 /\ b <= 191
    ELSE IF k = 1 /\ lead = 237 THEN b >= 128 /\ b <= 159
    ELSE IF k = 1 /\ lead = 240 THEN b >= 144 /\ b <= 191
    ELSE IF k = 1 /\ lead = 244 THEN b >= 128 /\ b <= 143
    ELSE b >= 128 /\ b <= 191

\* how many valid continuation bytes follow the lead byte at 1-based index i
ContPresent(blob, i) ==
    LET need == ContNeeded(blob[i])
        ok(k) == i + k <= Len(blob) /\ ValidCont(blob[i], k, blob[i + k])
    IN  IF need >= 1 /\ ok(1)
        THEN IF need >= 2 /\ ok(2)
             THEN IF need >= 3 /\ ok(3) THEN 3 ELSE 2
             ELSE 1
        ELSE 0

\* the code point of the complete sequence at 1-based index i
CodePointAt(blob, i) ==
    LET need == ContNeeded(blob[i])
        c(k) == blob[i + k] % 64
    IN  IF need = 0 THEN blob[i]
        ELSE IF need = 1 THEN (blob[i] % 32) * 64 + c(1)
        ELSE IF need = 2 THEN (blob[i] % 16) * 4096 + c(1) * 64 + c(2)
        ELSE (blob[i] % 8) * 262144 + c(1) * 4096 + c(2) * 64 + c(3)

\* The sequences that start at the 1-based indices i..(limit - 1), decoded from
\* left to right, and the index after the last of them.  The span is taken in
\* halves; the right half starts where the left half's last sequence ends.
RECURSIVE DecodeSpan(_, _, _, _)
DecodeSpan(blob, i, limit, errors) ==
    IF i >= limit THEN [text |-> << >>, next |-> i]
    ELSE IF limit - i = 1
    THEN LET need == ContNeeded(blob[i])
             have == ContPresent(blob, i)
         IN  IF need >= 0 /\ have = need
             THEN [text |-> <<CodePointAt(blob, i)>>, next |-> i + need + 1]
             ELSE [text |-> IF errors = "replace" THEN <<ReplacementChar>> ELSE << >>,
                   next |-> i + have + 1]
    ELSE LET left == DecodeSpan(blob, i, (i + limit) \div 2, errors)
             right == DecodeSpan(blob, left.next, limit, errors)
         IN  [text |-> left.text \o right.text, next |-> right.next]

Utf8Decode(blob, errors) == DecodeSpan(blob, 1, Len(blob) + 1, errors).text

\* str.encode("utf-8") of one code point (no surrogate reaches it: the decoder makes none)
EncodeChar(c) ==
    IF c < 128 THEN <<c>>
    ELSE IF c < 2048 THEN <<192 + (c \div 64), 128 + (c % 64)>>
    ELSE IF c < 65536 THEN <<224 + (c \div 4096), 128 + ((c \div 64) % 64), 128 + (c % 64)>>
    ELSE <<240 + (c \div 262144), 128 + ((c \div 4096) % 64), 128 + ((c \div 64) % 64),
           128 + (c % 64)>>

\* str.encode("utf-8"), the text taken in halves
RECURSIVE Utf8Encode(_)
Utf8Encode(text) ==
    IF text = << >> THEN << >>
    ELSE IF Len(text) = 1 THEN EncodeChar(text[1])
    ELSE LET half == Len(text) \div 2
         IN  Utf8Encode(SubSeq(text, 1, half)) \o Utf8Encode(SubSeq(text, half + 1, Len(text)))

(***************************************************************************)
(* str.isprintable and the whitespace of str.strip, tabulated from the     *)
(* Unicode database for the code points the bounded inputs decode to:      *)
(* U+0000..U+00FF and U+FFFD.  Another code point is an evaluation error.  *)
(***************************************************************************)
NonPrintableLatin1 == (0..31) \cup (127..160) \cup {173}
WhitespaceLatin1 == (9..13) \cup (28..32) \cup {133, 160}

IsPrintable(c) ==
    CASE c < 256 -> c \notin NonPrintableLatin1
      [] c = ReplacementChar -> TRUE

IsSpace(c) ==
    CASE c < 256 -> c \in WhitespaceLatin1
      [] c = ReplacementChar -> FALSE

\* the characters kept although not printable: "\n\t\r"
KeptControls == {10, 9, 13}

\* the test of line 16: c.isprintable() or c in "\n\t\r"
KeepEveryChar(c) == TRUE

KeepChar(c) == IsPrintable(c) \/ c \in KeptControls

\* "".join(c if c.isprintable() or c in "\n\t\r" else "" for c in text), the
\* text taken in halves
RECURSIVE RemoveControls(_)
RemoveControls(text) ==
    IF text = << >> THEN << >>
    ELSE IF Len(text) = 1 THEN (IF KeepChar(text[1]) THEN text ELSE << >>)
    ELSE LET half == Len(text) \div 2
         IN  RemoveControls(SubSeq(text, 1, half))
                 \o RemoveControls(SubSeq(text, half + 1, Len(text)))

\* str.strip()
Strip(text) ==
    LET solid == {i \in 1..Len(text) : ~IsSpace(text[i])}
    IN  IF solid = {} THEN << >>
        ELSE SubSeq(text, CHOOSE i \in solid : \A j \in solid : i <= j,
                          CHOOSE i \in solid : \A j \in solid : i >= j)

(***************************************************************************)
(* normalize_text (src/src/utils.py:9-17).  errors="replace" never raises, *)
(* so the latin-1 fallback of lines 13-14 is never taken.                  *)
(***************************************************************************)
NormalizeStripFirst(blob) == RemoveControls(Strip(Utf8Decode(blob, "replace")))

normalize_text(blob) == Strip(RemoveControls(Utf8Decode(blob, "replace")))

(***************************************************************************)
(* The extractor's clean-up of a payload slice (src/src/utils.py:111-116): *)
(* clean is the text, clean.encode("utf-8") is what the extractor records. *)
(***************************************************************************)
CleanPayload(text_bytes) == Strip(RemoveControls(Utf8Decode(text_bytes, "ignore")))

(***************************************************************************)
(* The patterns of extract_buffers_by_id (src/src/utils.py:66-121).        *)
(* In a bytes pattern \s is an ASCII whitespace byte and [a-f0-9] a        *)
(* lowercase hexadecimal digit.  Positions are 0-based, as in the source.  *)
(***************************************************************************)
IdLen == 32
SearchWindowSize == 2000
MaxTextLength == 10000

IdMarker == <<105, 100, 34>>                 \* id"
TextMarker == <<116, 101, 120, 116, 34>>     \* text"
QuoteByte == <<34>>                          \* "
HexDigits == (48..57) \cup (97..102)
AsciiSpace == (9..13) \cup {32}

\* the bytes of pat stand in data from position p on
MatchesAt(data, p, pat) ==
    /\ p + Len(pat) <= Len(data)
    /\ \A k \in 1..Len(pat) : data[p + k] = pat[k]

\* bytes.find(pat): the first position where pat stands, or -1
Find(data, pat) ==
    LET hits == {p \in 0..(Len(data) - Len(pat)) : MatchesAt(data, p, pat)}
    IN  IF hits = {} THEN -1 ELSE CHOOSE p \in hits : \A q \in hits : p <= q

\* the length of the run of bytes of class S that starts at position p
RunLength(data, p, S) ==
    LET stops == {q \in p..Len(data) : q = Len(data) \/ At(data, q) \notin S}
    IN  IF p >= Len(data) THEN 0
        ELSE (CHOOSE q \in stops : \A r \in stops : q <= r) - p

NoId == << >>

\* the id captured by id"\s+([a-f0-9]{32})" matched at position p, or NoId.
\* \s+ takes the whole whitespace run: the byte after it has to be a digit.
IdAt(data, p) ==
    IF ~MatchesAt(data, p, IdMarker) THEN NoId
    ELSE LET ws == RunLength(data, p + Len(IdMarker), AsciiSpace)
             h == p + Len(IdMarker) + ws
         IN  IF /\ ws >= 1
                /\ h + IdLen < Len(data)
                /\ \A k \in 1..IdLen : data[h + k] \in HexDigits
                /\ At(data, h + IdLen) = QuoteByte[1]
             THEN SubSeq(data, h + 1, h + IdLen)
             ELSE NoId

\* the positions where the pattern matches.  Two matches never overlap (the
\* byte i stands only at the start of a match), so re.findall sees them all.
IdMatchStarts(data) == {p \in 0..(Len(data) - 1) : IdAt(data, p) # NoId}

\* set(re.findall(rb'id"\s+([a-f0-9]{32})"', data)), line 68
FindBufferIds(data) == {IdAt(data, p) : p \in IdMatchStarts(data)}

\* a variant of line 73 that takes the last match
SearchLastId(data, bid) ==
    LET hits == {p \in IdMatchStarts(data) : IdAt(data, p) = bid}
    IN  IF hits = {} THEN -1 ELSE CHOOSE p \in hits : \A q \in hits : q <= p

\* re.search(rb'id"\s+' + bid + rb'"', data), line 73: the first match's start, or -1
SearchId(data, bid) ==
    LET hits == {p \in IdMatchStarts(data) : IdAt(data, p) = bid}
    IN  IF hits = {} THEN -1 ELSE CHOOSE p \in hits : \A q \in hits : p <= q

\* the window of lines 79-81
SearchWindow(data, start_pos) ==
    PySlice(data, start_pos, Min(Len(data), start_pos + SearchWindowSize))

\* a variant of the test of line 105 that lets every slice through
SliceNeverOverruns(content_end, window) == FALSE

\* the test of line 105
SliceOverruns(content_end, window) == content_end > Len(window)

\* a variant of line 102 that starts the content at the length prefix
ContentStartAtPrefix(length_offset, bytes_consumed) == length_offset

\* content_start of line 102
ContentStart(length_offset, bytes_consumed) == length_offset + bytes_consumed

\* One pass of the loop body, lines 72-119: the bytes recorded for bid.  Lines
\* 111-116 cannot raise (errors="ignore", and the text holds no surrogate),
\* so the handler of lines 117-119 is never entered.
BufferText(data, bid) ==
    LET start_pos == SearchId(data, bid)
        search_window == SearchWindow(data, start_pos)
        text_pos == Find(search_window, TextMarker)
        length_offset == text_pos + Len(TextMarker)
        decoded == decode_varint_length(search_window, length_offset)
        text_length == decoded.length
        content_start == ContentStart(length_offset, decoded.consumed)
        content_end == content_start + text_length
    IN  IF start_pos = -1 THEN << >>
        ELSE IF text_pos = -1 THEN << >>
        ELSE IF length_offset >= Len(search_window) THEN << >>
        ELSE IF text_length = 0 \/ text_length > MaxTextLength THEN << >>
        ELSE IF SliceOverruns(content_end, search_window) THEN << >>
        ELSE Utf8Encode(CleanPayload(PySlice(search_window, content_start, content_end)))

(***************************************************************************)
(* is_internal_buffer (src/src/utils.py:20-33).  text.split("\n")[0] is    *)
(* the text up to its first line feed (the whole text when it has none);   *)
(* [:200] keeps at most its first 200 characters; marker in first_line is  *)
(* a substring test.                                                       *)
(***************************************************************************)
MinInternalLength == 10
FirstLineLimit == 200
LineFeed == <<10>>

Deserializer == <<100, 101, 115, 101, 114, 105, 97, 108, 105, 122, 101, 114>>
Workspace == <<87, 111, 114, 107, 115, 112, 97, 99, 101>>
PackagesWithActiveGrammars ==
    <<112, 97, 99, 107, 97, 103, 101, 115, 87, 105, 116, 104, 65, 99,
      116, 105, 118, 101, 71, 114, 97, 109, 109, 97, 114, 115>>
DestroyedItemURIs ==
    <<100, 101, 115, 116, 114, 111, 121, 101, 100, 73, 116, 101, 109, 85,
      82, 73, 115>>
InternalMarkers == {Deserializer, Workspace, PackagesWithActiveGrammars, DestroyedItemURIs}

\* text.split("\n")[0]
FirstSplit(text) ==
    LET nl == Find(text, LineFeed)
    IN  IF nl = -1 THEN text ELSE PySlice(text, 0, nl)

\* a variant that looks for the markers in the whole first line
InternalInWholeLine(text) ==
    IF text = << >> \/ Len(text) < MinInternalLength THEN FALSE
    ELSE \E marker \in InternalMarkers : Find(FirstSplit(text), marker) # -1

is_internal_buffer(text) ==
    IF text = << >> \/ Len(text) < MinInternalLength THEN FALSE
    ELSE LET first_line == PySlice(FirstSplit(text), 0, FirstLineLimit)
         IN  \E marker \in InternalMarkers : Find(first_line, marker) # -1

(***************************************************************************)
(* extract_buffer_grammars (src/src/utils.py:36-45): re.findall scans from *)
(* left to right and goes on after the end of each match; a later match of *)
(* the same id overwrites the earlier one.                                 *)
(***************************************************************************)
TextDot == <<116, 101, 120, 116, 46>>                  \* text.
SourceDot == <<115, 111, 117, 114, 99, 101, 46>>       \* source.
ControlOrSpace == 0..32                                \* [\s\x00-\x1f]
GrammarChars == (97..122) \cup (48..57) \cup {46, 45}  \* [a-z0-9.\-]
MaxGrammarGap == 5

NoMatch == [end |-> -1, bid |-> << >>, grammar |-> << >>]

\* the match of ([a-f0-9]{32})"[\s\x00-\x1f]{1,5}((?:text|source)\.[a-z0-9.\-]+)
\* at position p.  The control run ends where the tag starts, the tag's last
\* part is taken greedily.
GrammarMatchAt(data, p) ==
    IF ~(/\ p + IdLen < Len(data)
         /\ \A k \in 1..IdLen : data[p + k] \in HexDigits
         /\ At(data, p + IdLen) = QuoteByte[1])
    THEN NoMatch
    ELSE LET c == p + IdLen + 1
             gap == RunLength(data, c, ControlOrSpace)
             g == c + gap
             stem == IF MatchesAt(data, g, TextDot) THEN Len(TextDot)
                     ELSE IF MatchesAt(data, g, SourceDot) THEN Len(SourceDot)
                     ELSE 0
             rest == RunLength(data, g + stem, GrammarChars)
         IN  IF gap >= 1 /\ gap <= MaxGrammarGap /\ stem > 0 /\ rest >= 1
             THEN [end |-> g + stem + rest,
                   bid |-> SubSeq(data, p + 1, p + IdLen),
                   grammar |-> SubSeq(data, g + 1, g + stem + rest)]
             ELSE NoMatch

\* findall from position p on: the leftmost match, then on from its end
RECURSIVE GrammarScan(_, _, _)
GrammarScan(data, p, grammars) ==
    LET starts == {q \in p..(Len(data) - 1) : GrammarMatchAt(data, q).end # -1}
    IN  IF starts = {} THEN grammars
        ELSE LET m == GrammarMatchAt(data, CHOOSE q \in starts : \A r \in starts : q <= r)
             IN  GrammarScan(data, m.end, DictSet(grammars, m.bid, m.grammar))

extract_buffer_grammars(data) == GrammarScan(data, 0, EmptyDict)

(***************************************************************************)
(* extract_buffers_by_id as main calls it (src/src/cli.py:179), and the    *)
(* merge of one file's maps into the running totals (lines 182-186).       *)
(***************************************************************************)
extract_buffers_by_id(data) == [bid \in FindBufferIds(data) |-> BufferText(data, bid)]

\* for bid, content in buffers.items():
\*     if content or bid not in all_buffers: all_buffers[bid] = content
\* The keys of buffers are distinct, so the order of the loop is immaterial.
MergeAlwaysOverwrite(all, buffers) ==
    [bid \in (DOMAIN all) \cup (DOMAIN buffers) |->
        IF bid \in DOMAIN buffers THEN buffers[bid] ELSE all[bid]]

MergeKeepFirst(all, buffers) ==
    [bid \in (DOMAIN all) \cup (DOMAIN buffers) |->
        IF bid \in DOMAIN all THEN all[bid] ELSE buffers[bid]]

MergeFillEmptyOnly(all, buffers) ==
    [bid \in (DOMAIN all) \cup (DOMAIN buffers) |->
        IF bid \in DOMAIN buffers /\ (bid \notin DOMAIN all \/ all[bid] = << >>)
        THEN buffers[bid]
        ELSE all[bid]]

MergeBuffers(all, buffers) ==
    [bid \in (DOMAIN all) \cup (DOMAIN buffers) |->
        IF bid \in DOMAIN buffers /\ (buffers[bid] # << >> \/ bid \notin DOMAIN all)
        THEN buffers[bid]
        ELSE all[bid]]

MergeGrammarsKeepFirst(all, grammars) == DictUpdate(grammars, all)

\* all_grammars.update(grammars)
MergeGrammars(all, grammars) == DictUpdate(all, grammars)

\* The order of the keys of all_buffers, which the loop of cli.py:219 follows:
\* a dictionary keeps its keys in the order of their first insertion.  Line
\* 184 inserts the ids a file brings in the order of buffers.items(), the
\* order in which utils.py:71 iterated a set: any order.
Orderings(S) ==
    {q \in [1..Cardinality(S) -> S] : \A a \in S : \E k \in 1..Cardinality(S) : q[k] = a}
InsertionOrders(order, buffers) ==
    {order \o q : q \in Orderings((DOMAIN buffers) \ {order[k] : k \in 1..Len(order)})}

(***************************************************************************)
(* GRAMMAR_TO_EXTENSION (src/src/constants.py:14-78): grammar identifiers  *)
(* and extensions as sequences of character codes.                         *)
(***************************************************************************)
GRAMMAR_TO_EXTENSION ==
    \* source.c -> c
    (<<115, 111, 117, 114, 99, 101, 46, 99>>
        :> <<99>>)
    \* source.cake -> cake
    @@ (<<115, 111, 117, 114, 99, 101, 46, 99, 97, 107, 101>>
        :> <<99, 97, 107, 101>>)
    \* source.clojure -> clj
    @@ (<<115, 111, 117, 114, 99, 101, 46, 99, 108, 111, 106, 117, 114, 101>>
        :> <<99, 108, 106>>)
    \* source.coffee -> coffee
    @@ (<<115, 111, 117, 114, 99, 101, 46, 99, 111, 102, 102, 101, 101>>
        :> <<99, 111, 102, 102, 101, 101>>)
    \* source.cpp -> cpp
    @@ (<<115, 111, 117, 114, 99, 101, 46, 99, 112, 112>>
        :> <<99, 112, 112>>)
    \* source.cs -> cs
    @@ (<<115, 111, 117, 114, 99, 101, 46, 99, 115>>
        :> <<99, 115>>)
    \* source.css -> css
    @@ (<<115, 111, 117, 114, 99, 101, 46, 99, 115, 115>>
        :> <<99, 115, 115>>)
    \* source.css.less -> less
    @@ (<<115, 111, 117, 114, 99, 101, 46, 99, 115, 115, 46, 108, 101, 115, 115>>
        :> <<108, 101, 115, 115>>)
    \* source.css.scss -> scss
    @@ (<<115, 111, 117, 114, 99, 101, 46, 99, 115, 115, 46, 115, 99, 115, 115>>
        :> <<115, 99, 115, 115>>)
    \* source.csx -> csx
    @@ (<<115, 111, 117, 114, 99, 101, 46, 99, 115, 120>>
        :> <<99, 115, 120>>)
    \* source.flow -> js
    @@ (<<115, 111, 117, 114, 99, 101, 46, 102, 108, 111, 119>>
        :> <<106, 115>>)
    \* source.gfm -> md
    @@ (<<115, 111, 117, 114, 99, 101, 46, 103, 102, 109>>
        :> <<109, 100>>)
    \* source.git-config -> gitconfig
    @@ (<<115, 111, 117, 114, 99, 101, 46, 103, 105, 116, 45, 99, 111, 110, 102, 105, 103>>
        :> <<103, 105, 116, 99, 111, 110, 102, 105, 103>>)
    \* source.go -> go
    @@ (<<115, 111, 117, 114, 99, 101, 46, 103, 111>>
        :> <<103, 111>>)
    \* source.java -> java
    @@ (<<115, 111, 117, 114, 99, 101, 46, 106, 97, 118, 97>>
        :> <<106, 97, 118, 97>>)
    \* source.java-properties -> properties
    @@ (<<115, 111, 117, 114, 99, 101, 46, 106, 97, 118, 97, 45, 112, 114, 111, 112, 101, 114, 116, 105, 101, 115>>
        :> <<112, 114, 111, 112, 101, 114, 116, 105, 101, 115>>)
    \* source.js -> js
    @@ (<<115, 111, 117, 114, 99, 101, 46, 106, 115>>
        :> <<106, 115>>)
    \* source.js.rails source.js.jquery -> js
    @@ (<<115, 111, 117, 114, 99, 101, 46, 106, 115, 46, 114, 97, 105, 108, 115, 32, 115, 111, 117, 114, 99, 101, 46, 106, 115, 46, 106, 113, 117, 101, 114, 121>>
        :> <<106, 115>>)
    \* source.json -> json
    @@ (<<115, 111, 117, 114, 99, 101, 46, 106, 115, 111, 110>>
        :> <<106, 115, 111, 110>>)
    \* source.litcoffee -> litcoffee
    @@ (<<115, 111, 117, 114, 99, 101, 46, 108, 105, 116, 99, 111, 102, 102, 101, 101>>
        :> <<108, 105, 116, 99, 111, 102, 102, 101, 101>>)
    \* source.makefile -> mk
    @@ (<<115, 111, 117, 114, 99, 101, 46, 109, 97, 107, 101, 102, 105, 108, 101>>
        :> <<109, 107>>)
    \* source.mod -> mod
    @@ (<<115, 111, 117, 114, 99, 101, 46, 109, 111, 100>>
        :> <<109, 111, 100>>)
    \* source.objc -> m
    @@ (<<115, 111, 117, 114, 99, 101, 46, 111, 98, 106, 99>>
        :> <<109>>)
    \* source.objcpp -> mm
    @@ (<<115, 111, 117, 114, 99, 101, 46, 111, 98, 106, 99, 112, 112>>
        :> <<109, 109>>)
    \* source.perl -> pl
    @@ (<<115, 111, 117, 114, 99, 101, 46, 112, 101, 114, 108>>
        :> <<112, 108>>)
    \* source.perl6 -> pl6
    @@ (<<115, 111, 117, 114, 99, 101, 46, 112, 101, 114, 108, 54>>
        :> <<112, 108, 54>>)
    \* source.plist -> plist
    @@ (<<115, 111, 117, 114, 99, 101, 46, 112, 108, 105, 115, 116>>
        :> <<112, 108, 105, 115, 116>>)
    \* source.python -> py
    @@ (<<115, 111, 117, 114, 99, 101, 46, 112, 121, 116, 104, 111, 110>>
        :> <<112, 121>>)
    \* source.regexp.python -> re
    @@ (<<115, 111, 117, 114, 99, 101, 46, 114, 101, 103, 101, 120, 112, 46, 112, 121, 116, 104, 111, 110>>
        :> <<114, 101>>)
    \* source.ruby -> rb
    @@ (<<115, 111, 117, 114, 99, 101, 46, 114, 117, 98, 121>>
        :> <<114, 98>>)
    \* source.ruby.gemfile -> Gemfile
    @@ (<<115, 111, 117, 114, 99, 101, 46, 114, 117, 98, 121, 46, 103, 101, 109, 102, 105, 108, 101>>
        :> <<71, 101, 109, 102, 105, 108, 101>>)
    \* source.ruby.rails -> rb
    @@ (<<115, 111, 117, 114, 99, 101, 46, 114, 117, 98, 121, 46, 114, 97, 105, 108, 115>>
        :> <<114, 98>>)
    \* source.ruby.rails.rjs -> rjs
    @@ (<<115, 111, 117, 114, 99, 101, 46, 114, 117, 98, 121, 46, 114, 97, 105, 108, 115, 46, 114, 106, 115>>
        :> <<114, 106, 115>>)
    \* source.rust -> rs
    @@ (<<115, 111, 117, 114, 99, 101, 46, 114, 117, 115, 116>>
        :> <<114, 115>>)
    \* source.sass -> sass
    @@ (<<115, 111, 117, 114, 99, 101, 46, 115, 97, 115, 115>>
        :> <<115, 97, 115, 115>>)
    \* source.shell -> sh
    @@ (<<115, 111, 117, 114, 99, 101, 46, 115, 104, 101, 108, 108>>
        :> <<115, 104>>)
    \* source.sql -> sql
    @@ (<<115, 111, 117, 114, 99, 101, 46, 115, 113, 108>>
        :> <<115, 113, 108>>)
    \* source.sql.ruby -> erbsql
    @@ (<<115, 111, 117, 114, 99, 101, 46, 115, 113, 108, 46, 114, 117, 98, 121>>
        :> <<101, 114, 98, 115, 113, 108>>)
    \* source.strings -> strings
    @@ (<<115, 111, 117, 114, 99, 101, 46, 115, 116, 114, 105, 110, 103, 115>>
        :> <<115, 116, 114, 105, 110, 103, 115>>)
    \* source.toml -> toml
    @@ (<<115, 111, 117, 114, 99, 101, 46, 116, 111, 109, 108>>
        :> <<116, 111, 109, 108>>)
    \* source.ts -> ts
    @@ (<<115, 111, 117, 114, 99, 101, 46, 116, 115>>
        :> <<116, 115>>)
    \* source.tsx -> tsx
    @@ (<<115, 111, 117, 114, 99, 101, 46, 116, 115, 120>>
        :> <<116, 115, 120>>)
    \* source.yaml -> yaml
    @@ (<<115, 111, 117, 114, 99, 101, 46, 121, 97, 109, 108>>
        :> <<121, 97, 109, 108>>)
    \* text.git-commit -> txt
    @@ (<<116, 101, 120, 116, 46, 103, 105, 116, 45, 99, 111, 109, 109, 105, 116>>
        :> <<116, 120, 116>>)
    \* text.git-rebase -> txt
    @@ (<<116, 101, 120, 116, 46, 103, 105, 116, 45, 114, 101, 98, 97, 115, 101>>
        :> <<116, 120, 116>>)
    \* text.html.basic -> html
    @@ (<<116, 101, 120, 116, 46, 104, 116, 109, 108, 46, 98, 97, 115, 105, 99>>
        :> <<104, 116, 109, 108>>)
    \* text.html.ejs -> ejs
    @@ (<<116, 101, 120, 116, 46, 104, 116, 109, 108, 46, 101, 106, 115>>
        :> <<101, 106, 115>>)
    \* text.html.erb -> erb
    @@ (<<116, 101, 120, 116, 46, 104, 116, 109, 108, 46, 101, 114, 98>>
        :> <<101, 114, 98>>)
    \* text.html.gohtml -> gohtml
    @@ (<<116, 101, 120, 116, 46, 104, 116, 109, 108, 46, 103, 111, 104, 116, 109, 108>>
        :> <<103, 111, 104, 116, 109, 108>>)
    \* text.html.jsp -> jsp
    @@ (<<116, 101, 120, 116, 46, 104, 116, 109, 108, 46, 106, 115, 112>>
        :> <<106, 115, 112>>)
    \* text.html.mustache -> mustache
    @@ (<<116, 101, 120, 116, 46, 104, 116, 109, 108, 46, 109, 117, 115, 116, 97, 99, 104, 101>>
        :> <<109, 117, 115, 116, 97, 99, 104, 101>>)
    \* text.html.php -> php
    @@ (<<116, 101, 120, 116, 46, 104, 116, 109, 108, 46, 112, 104, 112>>
        :> <<112, 104, 112>>)
    \* text.html.ruby -> erb
    @@ (<<116, 101, 120, 116, 46, 104, 116, 109, 108, 46, 114, 117, 98, 121>>
        :> <<101, 114, 98>>)
    \* text.plain -> txt
    @@ (<<116, 101, 120, 116, 46, 112, 108, 97, 105, 110>>
        :> <<116, 120, 116>>)
    \* text.plain.null-grammar -> txt
    @@ (<<116, 101, 120, 116, 46, 112, 108, 97, 105, 110, 46, 110, 117, 108, 108, 45, 103, 114, 97, 109, 109, 97, 114>>
        :> <<116, 120, 116>>)
    \* text.null-grammar -> txt
    @@ (<<116, 101, 120, 116, 46, 110, 117, 108, 108, 45, 103, 114, 97, 109, 109, 97, 114>>
        :> <<116, 120, 116>>)
    \* null-grammar -> txt
    @@ (<<110, 117, 108, 108, 45, 103, 114, 97, 109, 109, 97, 114>>
        :> <<116, 120, 116>>)
    \* text.python.console -> py
    @@ (<<116, 101, 120, 116, 46, 112, 121, 116, 104, 111, 110, 46, 99, 111, 110, 115, 111, 108, 101>>
        :> <<112, 121>>)
    \* text.python.traceback -> pytb
    @@ (<<116, 101, 120, 116, 46, 112, 121, 116, 104, 111, 110, 46, 116, 114, 97, 99, 101, 98, 97, 99, 107>>
        :> <<112, 121, 116, 98>>)
    \* text.shell-session -> sh
    @@ (<<116, 101, 120, 116, 46, 115, 104, 101, 108, 108, 45, 115, 101, 115, 115, 105, 111, 110>>
        :> <<115, 104>>)
    \* text.xml -> xml
    @@ (<<116, 101, 120, 116, 46, 120, 109, 108>>
        :> <<120, 109, 108>>)
    \* text.xml.plist -> plist
    @@ (<<116, 101, 120, 116, 46, 120, 109, 108, 46, 112, 108, 105, 115, 116>>
        :> <<112, 108, 105, 115, 116>>)
    \* text.xml.xsl -> xsl
    @@ (<<116, 101, 120, 116, 46, 120, 109, 108, 46, 120, 115, 108>>
        :> <<120, 115, 108>>)

\* set(GRAMMAR_TO_EXTENSION.values())
ValidExtensions == {GRAMMAR_TO_EXTENSION[g] : g \in DOMAIN GRAMMAR_TO_EXTENSION}

(***************************************************************************)
(* CliConfig (src/src/models.py:11-44) and the validators of               *)
(* src/src/utils.py:137-152.  The input path is missing, a file or a       *)
(* directory; files is the list of *.ldb and *.log files the directory     *)
(* holds, newest first.                                                    *)
(***************************************************************************)
Dot == 46

\* value.strip().lstrip(".")
CleanExtension(value) ==
    LET stripped == Strip(value)
        dots == RunLength(stripped, 0, {Dot})
    IN  PySlice(stripped, dots, Len(stripped))

\* a variant of validate_force_ext that accepts every extension
ForceExtAccepted(value) == FALSE

\* validate_force_ext raises
ForceExtRejected(value) == value = << >> \/ CleanExtension(value) \notin ValidExtensions

\* validate_and_expand_atom_db_dir raises
AtomDbDirRejected(path) == path # "dir"

\* validate_atom_db_has_files raises
NoFilesRejected(c) == c.files = << >>

\* CliConfig(...) raises: a field validator fails, or all fields are valid
\* and the model validator fails
ConfigRejected(c) ==
    \/ AtomDbDirRejected(c.path)
    \/ ForceExtRejected(c.force_ext)
    \/ NoFilesRejected(c)

(***************************************************************************)
(* The file name of an exported buffer (src/src/cli.py:226-241)            *)
(***************************************************************************)
Dash == 45
Underscores == <<95, 95>>
Note == <<110, 111, 116, 101>>
Zero == 48
MaxSlugLength == 60
NumberWidth == 3

IsAlnum(c) == c \in (48..57) \cup (65..90) \cup (97..122)
Lower(c) == IF c \in 65..90 THEN c + 32 ELSE c

\* text.splitlines()[0] of a non-empty text that normalize_text returned:
\* of the line boundaries of splitlines only \n and \r are left in it
FirstLine(text) ==
    LET ends == {q \in 0..Len(text) : q = Len(text) \/ At(text, q) \in {10, 13}}
    IN  PySlice(text, 0, CHOOSE q \in ends : \A r \in ends : q <= r)

\* s.strip("-") and s.rstrip("-")
RStripDashes(t) ==
    LET keep == {k \in 1..Len(t) : t[k] # Dash}
    IN  IF keep = {} THEN << >>
        ELSE SubSeq(t, 1, CHOOSE k \in keep : \A j \in keep : j <= k)
StripDashes(t) ==
    LET keep == {k \in 1..Len(t) : t[k] # Dash}
    IN  IF keep = {} THEN << >>
        ELSE SubSeq(t, CHOOSE k \in keep : \A j \in keep : k <= j,
                       CHOOSE k \in keep : \A j \in keep : j <= k)

\* re.sub(r"[^a-zA-Z0-9]+", "-", line).lower(): each run of other characters
\* becomes one dash, which stands where the run's first character stood
DashRuns(line) ==
    LET kept == {k \in 1..Len(line) : IsAlnum(line[k]) \/ k = 1 \/ IsAlnum(line[k - 1])}
        nth(j) == CHOOSE k \in kept : Cardinality({x \in kept : x <= k}) = j
    IN  [j \in 1..Cardinality(kept) |->
            IF IsAlnum(line[nth(j)]) THEN Lower(line[nth(j)]) ELSE Dash]

\* lines 232-240
Slug(text) ==
    LET line == IF text = << >> THEN Note ELSE Strip(FirstLine(text))
        first_line == IF line = << >> THEN Note ELSE line
        slug == StripDashes(DashRuns(first_line))
        cut == IF Len(slug) > MaxSlugLength
               THEN RStripDashes(PySlice(slug, 0, MaxSlugLength)) ELSE slug
    IN  IF cut = << >> THEN Note ELSE cut

\* f"{n:03d}" for n >= 0
RECURSIVE Decimal(_)
Decimal(n) == IF n < 10 THEN <<Zero + n>> ELSE Decimal(n \div 10) \o <<Zero + (n % 10)>>
Padded(n) ==
    LET digits == Decimal(n)
    IN  IF Len(digits) >= NumberWidth THEN digits
        ELSE Repeat(Zero, NumberWidth - Len(digits)) \o digits

\* a variant of lines 226-230 that always takes the fallback extension
ExtensionAlwaysFallback(grammars, bid, fallback) == fallback

\* lines 226-230: all_grammars.get(buffer_id) is None for an id without a tag
Extension(grammars, bid, fallback) ==
    IF /\ bid \in DOMAIN grammars
       /\ grammars[bid] # << >>
       /\ grammars[bid] \in DOMAIN GRAMMAR_TO_EXTENSION
    THEN GRAMMAR_TO_EXTENSION[grammars[bid]]
    ELSE fallback

\* a variant of line 241 that leaves the sequence number out of the name
FileNameWithoutNumber(text, count, ext) == Slug(text) \o Underscores \o <<Dot>> \o ext

\* line 241
FileName(text, count, ext) == Slug(text) \o Underscores \o Padded(count) \o <<Dot>> \o ext

(***************************************************************************)
(* Bounded inputs                                                          *)
(***************************************************************************)
BoundedSeq(S, n) == UNION {[1..k -> S] : k \in 0..n}

MaxVarintLen == 2
VarintBytes == {0, 5, 127, 128, 131, 255}

MaxBlobLen == 3
\* NUL, tab, space, H, the lead byte 0xC2, the continuation bytes 0xA0 and 0xA9
\* (0xC2 0xA0 is the no-break space, 0xC2 0xA9 the copyright sign), and 0xFF
NormBytes == {0, 9, 32, 72, 194, 160, 169, 255}

\* two buffer ids
IdA == Repeat(97, IdLen)
IdB == Repeat(49, IdLen)
BufferIds == {IdA, IdB}

Hello == <<72, 101, 108, 108, 111>>

\* A record as the storage files hold it: id" + whitespace + the id + " +
\* padding + (text") + the length prefix + the payload.
RecordBytes(r) ==
    IdMarker \o Repeat(32, r.ws) \o r.id \o QuoteByte \o Repeat(0, r.gap)
        \o (IF r.marker THEN TextMarker ELSE << >>) \o r.len \o r.payload

Shape(ws, gap, marker, len, payload) ==
    [ws |-> ws, gap |-> gap, marker |-> marker, len |-> len, payload |-> payload]

\* id"  <id>"text"\x05Hello
WellFormed == Shape(2, 0, TRUE, <<5>>, Hello)
\* a payload with a blank, an invalid byte, a NUL and a tab around "Hi"
Untidy == Shape(1, 2, TRUE, <<6>>, <<32, 72, 255, 105, 0, 9>>)
\* a two-byte length prefix: 0x83 0x01 is 131
TwoByteLength == Shape(2, 0, TRUE, <<131, 1>>, Repeat(97, 131))
NoMarker == Shape(2, 0, FALSE, << >>, << >>)
ZeroLength == Shape(2, 0, TRUE, <<0>>, Hello)
\* a first length byte with the high bit set and nothing after it
HalfVarint == Shape(2, 0, TRUE, <<131>>, << >>)
\* 0x91 0x4E is 17 + 78 * 128 = 10001
TooLong == Shape(2, 0, TRUE, <<145, 78>>, Hello)
\* five bytes declared, two there
Short == Shape(2, 0, TRUE, <<5>>, <<72, 101>>)
\* the payload ends with the window's last byte (38 + 5 + 1 + 5 bytes are not padding)
FitsWindow == Shape(2, SearchWindowSize - 49, TRUE, <<5>>, Hello)
\* the payload's last byte is the first one past the window
PastWindow == Shape(2, SearchWindowSize - 48, TRUE, <<5>>, Hello)
\* text" starts two bytes before the window's end
MarkerPastWindow == Shape(2, SearchWindowSize - 40, TRUE, <<5>>, Hello)

RecordShapes ==
    {WellFormed, Untidy, TwoByteLength, NoMarker, ZeroLength, HalfVarint, TooLong,
     Short, FitsWindow, PastWindow, MarkerPastWindow}

WithId(shape, id) ==
    [id |-> id, ws |-> shape.ws, gap |-> shape.gap, marker |-> shape.marker,
     len |-> shape.len, payload |-> shape.payload]

Records == {WithId(sh, id) : sh \in RecordShapes, id \in BufferIds}

MaxRecords == 2

\* The buffers of at most MaxRecords records: the first record is IdA's and of
\* any shape, the records after it are of five of the shapes.
LaterShapes == {WellFormed, Untidy, NoMarker, ZeroLength, Short}
RecordLists ==
    {rs \in BoundedSeq(Records, MaxRecords) :
        /\ rs # << >>
        /\ rs[1].id = IdA
        /\ \A k \in 2..Len(rs) : \E sh \in LaterShapes : rs[k] = WithId(sh, rs[k].id)}

RECURSIVE BufferBytes(_)
BufferBytes(rs) ==
    IF rs = << >> THEN << >> ELSE RecordBytes(Head(rs)) \o BufferBytes(Tail(rs))

\* grammar tags and a grammar record: the id, ", one control byte, the tag
SourcePython == SourceDot \o <<112, 121, 116, 104, 111, 110>>
SourceRuby == SourceDot \o <<114, 117, 98, 121>>
GrammarBytes(id, grammar) == id \o QuoteByte \o <<1>> \o grammar
Separator == <<0, 0>>

Readable(data) == [readable |-> TRUE, data |-> data]
Unreadable == [readable |-> FALSE, data |-> << >>]

\* the storage files a directory may hold
StorageFiles ==
    { Readable(RecordBytes(WithId(ZeroLength, IdA))),
      Readable(RecordBytes(WithId(WellFormed, IdA))),
      Readable(RecordBytes(WithId(Untidy, IdA))),
      Readable(RecordBytes(WithId(WellFormed, IdA)) \o Separator
                   \o GrammarBytes(IdA, SourcePython) \o Separator),
      Readable(RecordBytes(WithId(NoMarker, IdA)) \o Separator
                   \o GrammarBytes(IdA, SourceRuby) \o Separator),
      Readable(GrammarBytes(IdA, SourcePython) \o Separator),
      Readable(GrammarBytes(IdB, SourceRuby) \o Separator
                   \o RecordBytes(WithId(WellFormed, IdB))),
      Readable(GrammarBytes(IdA, SourceRuby) \o Separator
                   \o RecordBytes(WithId(Untidy, IdA))
                   \o RecordBytes(WithId(ZeroLength, IdB))),
      Unreadable }

MaxFiles == 2

\* The texts is_internal_buffer is run on: lead characters x, then a marker,
\* a near miss or nothing, then tail characters y; a line feed may stand
\* before or after the middle part.  The leads put each marker at the start
\* of the text, where it ends with the 200th character of the line, and where
\* it ends one character later.
MaxTail == 1
NearMisses == {<< >>, <<119, 111, 114, 107, 115, 112, 97, 99, 101>>, <<87, 111, 114, 107, 115, 112, 97, 99>>}
Leads ==
    {0, 1, FirstLineLimit} \cup {FirstLineLimit - Len(m) : m \in InternalMarkers}
        \cup {FirstLineLimit - Len(m) + 1 : m \in InternalMarkers}
Breaks == {"none", "before", "after"}
InternalText(lead, brk, middle, tail) ==
    Repeat(120, lead) \o (IF brk = "before" THEN LineFeed ELSE << >>) \o middle
        \o (IF brk = "after" THEN LineFeed ELSE << >>) \o Repeat(121, tail)
InternalTexts ==
    {InternalText(lead, brk, middle, tail) :
        lead \in Leads, brk \in Breaks,
        middle \in InternalMarkers \cup NearMisses, tail \in 0..MaxTail}

\* The runs of main: the configuration it is started with.
IdC == Repeat(99, IdLen)
\* a grammar tag that is no key of GRAMMAR_TO_EXTENSION: source.elixir
SourceElixir == SourceDot \o <<101, 108, 105, 120, 105, 114>>
\* the serialized state of the editor, 18 characters: {"deserializer":1}
InternalPayload ==
    <<123, 34, 100, 101, 115, 101, 114, 105, 97, 108, 105, 122, 101,
      114, 34, 58, 49, 125>>
InternalState == Shape(2, 0, TRUE, <<Len(InternalPayload)>>, InternalPayload)

RunFiles ==
    { Readable(RecordBytes(WithId(WellFormed, IdA)) \o Separator
                   \o GrammarBytes(IdA, SourcePython) \o Separator),
      Readable(GrammarBytes(IdB, SourceRuby) \o Separator
                   \o RecordBytes(WithId(WellFormed, IdB))
                   \o RecordBytes(WithId(WellFormed, IdC))),
      Readable(RecordBytes(WithId(InternalState, IdB))
                   \o RecordBytes(WithId(WellFormed, IdC))),
      Readable(GrammarBytes(IdA, SourceRuby) \o Separator
                   \o RecordBytes(WithId(Untidy, IdA))
                   \o RecordBytes(WithId(ZeroLength, IdB))),
      Readable(GrammarBytes(IdA, SourceElixir) \o Separator
                   \o RecordBytes(WithId(Untidy, IdA))),
      Unreadable }

\* --force-ext: txt (the default), .py, md after a blank, exe, and the empty string
ForceExtArgs == {<<116, 120, 116>>, <<46, 112, 121>>, <<32, 109, 100>>, <<101, 120, 101>>, << >>}
Paths == {"missing", "file", "dir"}
Configs ==
    {c \in [path : Paths, force_ext : ForceExtArgs, files : BoundedSeq(RunFiles, MaxFiles)] :
        c.path # "dir" => c.files = << >>}

NoResult == [length |-> -1, consumed |-> -1, reads |-> {}]
NoConfig == [path |-> "none", force_ext |-> << >>, files |-> << >>]
NoExit == -1
NoSummary == -1

(***************************************************************************)
(* Idle values: each specification runs one part of the program and leaves *)
(* the variables of the other parts at these values.                       *)
(***************************************************************************)
V_Idle == v_pc = "idle" /\ v_data = << >> /\ v_offset = 0 /\ v_result = NoResult

N_Idle ==
    /\ n_pc = "idle" /\ n_blob = << >> /\ n_text = << >> /\ n_again = << >>
    /\ n_clean = << >> /\ n_recorded = << >> /\ n_written = << >>

E_Idle ==
    /\ e_pc = "idle" /\ e_recs = << >> /\ e_data = << >> /\ e_ids = {}
    /\ e_texts = EmptyDict /\ e_last = NoId

M_Idle ==
    /\ pc = "idle" /\ files = << >> /\ fidx = 0
    /\ all_buffers = EmptyDict /\ buffer_order = << >> /\ all_grammars = EmptyDict

I_Idle == i_pc = "idle" /\ i_text = << >> /\ i_result = FALSE

R_Idle ==
    /\ cfg = NoConfig /\ force_ext = << >> /\ eidx = 0 /\ exported_count = 0
    /\ out_dir = EmptyDict /\ written = << >> /\ exit_status = NoExit /\ summary = NoSummary

(***************************************************************************)
(* SpecVarint: one call decode_varint_length(v_data, v_offset)             *)
(***************************************************************************)
V_Init ==
    /\ v_pc = "call"
    /\ v_data \in BoundedSeq(VarintBytes, MaxVarintLen)
    /\ v_offset \in 0..(MaxVarintLen + 1)
    /\ v_result = NoResult

DecodeVarint ==
    /\ v_pc = "call"
    /\ v_result' = decode_varint_length(v_data, v_offset)
    /\ v_pc' = "returned"
    /\ UNCHANGED <<v_data, v_offset>>
    /\ UNCHANGED <<n_vars, e_vars, m_vars, i_vars, r_vars>>

(***************************************************************************)
(* SpecNorm: normalize_text on a blob and on its own output; and a payload *)
(* slice cleaned and recorded by the extractor, then normalized again by   *)
(* the export loop of main (src/src/cli.py:220).                           *)
(***************************************************************************)
N_Init ==
    /\ n_pc = "start"
    /\ n_blob \in BoundedSeq(NormBytes, MaxBlobLen)
    /\ n_text = << >> /\ n_again = << >>
    /\ n_clean = << >> /\ n_recorded = << >> /\ n_written = << >>

\* text = normalize_text(blob)
Normalize ==
    /\ n_pc = "start"
    /\ n_text' = normalize_text(n_blob)
    /\ n_pc' = "normalized"
    /\ UNCHANGED <<n_blob, n_again, n_clean, n_recorded, n_written>>
    /\ UNCHANGED <<v_vars, e_vars, m_vars, i_vars, r_vars>>

\* normalize_text(text.encode("utf-8")) of the text just returned
NormalizeAgain ==
    /\ n_pc = "normalized"
    /\ n_again' = normalize_text(Utf8Encode(n_text))
    /\ n_pc' = "renormalized"
    /\ UNCHANGED <<n_blob, n_text, n_clean, n_recorded, n_written>>
    /\ UNCHANGED <<v_vars, e_vars, m_vars, i_vars, r_vars>>

\* extract_buffers_by_id, lines 111-116, with n_blob as the payload slice
RecordPayload ==
    /\ n_pc = "start"
    /\ n_clean' = CleanPayload(n_blob)
    /\ n_recorded' = Utf8Encode(CleanPayload(n_blob))
    /\ n_pc' = "recorded"
    /\ UNCHANGED <<n_blob, n_text, n_again, n_written>>
    /\ UNCHANGED <<v_vars, e_vars, m_vars, i_vars, r_vars>>

\* main, line 220: text = normalize_text(chunk), the text line 249 writes
ExportText ==
    /\ n_pc = "recorded"
    /\ n_written' = normalize_text(n_recorded)
    /\ n_pc' = "written"
    /\ UNCHANGED <<n_blob, n_text, n_again, n_clean, n_recorded>>
    /\ UNCHANGED <<v_vars, e_vars, m_vars, i_vars, r_vars>>
(***************************************************************************)
(* SpecExtract: one call extract_buffers_by_id(e_data).  The for loop of   *)
(* line 71 iterates a set: its order is any order.                         *)
(***************************************************************************)
E_Init ==
    /\ e_pc = "call"
    /\ e_recs \in RecordLists
    /\ e_data = BufferBytes(e_recs)
    /\ e_ids = {}
    /\ e_texts = EmptyDict
    /\ e_last = NoId

\* lines 68-69
FindIds ==
    /\ e_pc = "call"
    /\ e_ids' = FindBufferIds(e_data)
    /\ e_pc' = "loop"
    /\ UNCHANGED <<e_recs, e_data, e_texts, e_last>>
    /\ UNCHANGED <<v_vars, n_vars, m_vars, i_vars, r_vars>>

\* lines 71-119, one iteration
RecordId ==
    /\ e_pc = "loop"
    /\ \E bid \in e_ids \ DOMAIN e_texts :
          /\ e_texts' = DictSet(e_texts, bid, BufferText(e_data, bid))
          /\ e_last' = bid
    /\ UNCHANGED <<e_pc, e_recs, e_data, e_ids>>
    /\ UNCHANGED <<v_vars, n_vars, m_vars, i_vars, r_vars>>

\* line 121
ReturnTexts ==
    /\ e_pc = "loop"
    /\ e_ids \subseteq DOMAIN e_texts
    /\ e_pc' = "returned"
    /\ UNCHANGED <<e_recs, e_data, e_ids, e_texts, e_last>>
    /\ UNCHANGED <<v_vars, n_vars, m_vars, i_vars, r_vars>>
(***************************************************************************)
(* Spec: main (src/src/cli.py), from the list collect_files returned to    *)
(* the end of the loop of lines 172-186.  files is that list, in the order *)
(* the loop takes it; fidx is the 1-based index of the file taken next.    *)
(***************************************************************************)
M_Init ==
    /\ pc = "aggregate"
    /\ files \in {fs \in BoundedSeq(StorageFiles, MaxFiles) : fs # << >>}
    /\ fidx = 1
    /\ all_buffers = EmptyDict
    /\ buffer_order = << >>
    /\ all_grammars = EmptyDict

\* a variant of lines 173-177 that leaves the loop at the first file it cannot read
SkipFileAndStop ==
    /\ pc = "aggregate"
    /\ fidx <= Len(files)
    /\ ~files[fidx].readable
    /\ fidx' = Len(files) + 1
    /\ UNCHANGED <<pc, files, all_buffers, buffer_order, all_grammars>>
    /\ UNCHANGED <<v_vars, n_vars, e_vars, i_vars, r_vars>>

\* lines 173-177: path.read_bytes() raises, the file is skipped
SkipFile ==
    /\ pc = "aggregate"
    /\ fidx <= Len(files)
    /\ ~files[fidx].readable
    /\ fidx' = fidx + 1
    /\ UNCHANGED <<pc, files, all_buffers, buffer_order, all_grammars>>
    /\ UNCHANGED <<v_vars, n_vars, e_vars, i_vars, r_vars>>

\* lines 174, 179-186: the file is read, scanned and merged
MergeFile ==
    /\ pc = "aggregate"
    /\ fidx <= Len(files)
    /\ files[fidx].readable
    /\ LET buffers == extract_buffers_by_id(files[fidx].data)
           grammars == extract_buffer_grammars(files[fidx].data)
       IN  /\ all_buffers' = MergeBuffers(all_buffers, buffers)
           /\ buffer_order' \in InsertionOrders(buffer_order, buffers)
           /\ all_grammars' = MergeGrammars(all_grammars, grammars)
    /\ fidx' = fidx + 1
    /\ UNCHANGED <<pc, files>>
    /\ UNCHANGED <<v_vars, n_vars, e_vars, i_vars, r_vars>>

\* the loop of line 172 is over: line 188
EndAggregation ==
    /\ pc = "aggregate"
    /\ fidx > Len(files)
    /\ pc' = "merged"
    /\ UNCHANGED <<files, fidx, all_buffers, buffer_order, all_grammars>>
    /\ UNCHANGED <<v_vars, n_vars, e_vars, i_vars, r_vars>>

(***************************************************************************)
(* SpecInternal: one call is_internal_buffer(i_text)                       *)
(***************************************************************************)
I_Init ==
    /\ i_pc = "call"
    /\ i_text \in InternalTexts
    /\ i_result = FALSE

ClassifyText ==
    /\ i_pc = "call"
    /\ i_result' = is_internal_buffer(i_text)
    /\ i_pc' = "returned"
    /\ UNCHANGED i_text
    /\ UNCHANGED <<v_vars, n_vars, e_vars, m_vars, r_vars>>

(***************************************************************************)
(* SpecRun: main (src/src/cli.py:75-271) from the parsed arguments to the  *)
(* end of the process.  The loop of lines 172-186 is the three actions of  *)
(* Spec.  eidx is the 1-based position in buffer_order of the buffer the   *)
(* export loop takes next; out_dir maps the names of the files in the      *)
(* timestamp directory to their content; written lists the writes that     *)
(* succeeded; exit_status is the status the process ended with; summary is *)
(* the count that line 270 reported.                                       *)
(***************************************************************************)
R_Init ==
    /\ pc = "config"
    /\ cfg \in Configs
    /\ files = << >> /\ fidx = 0
    /\ all_buffers = EmptyDict /\ buffer_order = << >> /\ all_grammars = EmptyDict
    /\ force_ext = << >> /\ eidx = 0 /\ exported_count = 0
    /\ out_dir = EmptyDict /\ written = << >>
    /\ exit_status = NoExit /\ summary = NoSummary

\* sys.exit(1)
Exit1 == pc' = "exited" /\ exit_status' = 1

\* lines 75-141: CliConfig raises, sys.exit(1)
RejectConfig ==
    /\ pc = "config"
    /\ ConfigRejected(cfg)
    /\ Exit1
    /\ UNCHANGED <<files, fidx, all_buffers, buffer_order, all_grammars>>
    /\ UNCHANGED <<cfg, force_ext, eidx, exported_count, out_dir, written, summary>>
    /\ UNCHANGED <<v_vars, n_vars, e_vars, i_vars>>

\* lines 75-80: the configuration is valid
AcceptConfig ==
    /\ pc = "config"
    /\ ~ConfigRejected(cfg)
    /\ force_ext' = CleanExtension(cfg.force_ext)
    /\ pc' = "mkdir"
    /\ UNCHANGED <<files, fidx, all_buffers, buffer_order, all_grammars>>
    /\ UNCHANGED <<cfg, eidx, exported_count, out_dir, written, exit_status, summary>>
    /\ UNCHANGED <<v_vars, n_vars, e_vars, i_vars>>

\* lines 143-144: the output directory is there
MakeOutDir ==
    /\ pc = "mkdir"
    /\ pc' = "collect"
    /\ UNCHANGED <<files, fidx, all_buffers, buffer_order, all_grammars>>
    /\ UNCHANGED r_vars
    /\ UNCHANGED <<v_vars, n_vars, e_vars, i_vars>>

\* lines 145-161: mkdir raises OSError
MakeOutDirFails ==
    /\ pc = "mkdir"
    /\ Exit1
    /\ UNCHANGED <<files, fidx, all_buffers, buffer_order, all_grammars>>
    /\ UNCHANGED <<cfg, force_ext, eidx, exported_count, out_dir, written, summary>>
    /\ UNCHANGED <<v_vars, n_vars, e_vars, i_vars>>

\* lines 163-170: the list of storage files; the two maps start empty
CollectFiles ==
    /\ pc = "collect"
    /\ files' = cfg.files
    /\ IF cfg.files = << >>
       THEN Exit1 /\ UNCHANGED fidx
       ELSE pc' = "aggregate" /\ fidx' = 1 /\ UNCHANGED exit_status
    /\ UNCHANGED <<all_buffers, buffer_order, all_grammars>>
    /\ UNCHANGED <<cfg, force_ext, eidx, exported_count, out_dir, written, summary>>
    /\ UNCHANGED <<v_vars, n_vars, e_vars, i_vars>>

\* lines 196-199 and 218: the timestamp directory is there
MakeTimestampDir ==
    /\ pc = "merged"
    /\ pc' = "export"
    /\ eidx' = 1
    /\ exported_count' = 0
    /\ UNCHANGED <<files, fidx, all_buffers, buffer_order, all_grammars>>
    /\ UNCHANGED <<cfg, force_ext, out_dir, written, exit_status, summary>>
    /\ UNCHANGED <<v_vars, n_vars, e_vars, i_vars>>

\* lines 200-216: mkdir raises OSError
MakeTimestampDirFails ==
    /\ pc = "merged"
    /\ Exit1
    /\ UNCHANGED <<files, fidx, all_buffers, buffer_order, all_grammars>>
    /\ UNCHANGED <<cfg, force_ext, eidx, exported_count, out_dir, written, summary>>
    /\ UNCHANGED <<v_vars, n_vars, e_vars, i_vars>>

\* the buffer the loop of line 219 takes next, and the text of line 220
ExportId == buffer_order[eidx]
ExportedText == normalize_text(all_buffers[ExportId])
ExportName ==
    FileName(ExportedText, exported_count, Extension(all_grammars, ExportId, force_ext))

\* lines 219-224: an internal buffer is passed over
SkipInternalBuffer ==
    /\ pc = "export"
    /\ eidx <= Len(buffer_order)
    /\ is_internal_buffer(ExportedText)
    /\ eidx' = eidx + 1
    /\ UNCHANGED <<pc, files, fidx, all_buffers, buffer_order, all_grammars>>
    /\ UNCHANGED <<cfg, force_ext, exported_count, out_dir, written, exit_status, summary>>
    /\ UNCHANGED <<v_vars, n_vars, e_vars, i_vars>>

\* a variant of lines 248-266 that goes on with the next buffer after a failed write
WriteFailsAndContinues ==
    /\ pc = "export"
    /\ eidx <= Len(buffer_order)
    /\ ~is_internal_buffer(ExportedText)
    /\ eidx' = eidx + 1
    /\ UNCHANGED <<pc, files, fidx, all_buffers, buffer_order, all_grammars>>
    /\ UNCHANGED <<cfg, force_ext, exported_count, out_dir, written, exit_status, summary>>
    /\ UNCHANGED <<v_vars, n_vars, e_vars, i_vars>>

\* lines 219-268: the buffer is written to its file
WriteBuffer ==
    /\ pc = "export"
    /\ eidx <= Len(buffer_order)
    /\ ~is_internal_buffer(ExportedText)
    /\ out_dir' = DictSet(out_dir, ExportName, ExportedText)
    /\ written' = Append(written, [id |-> ExportId, name |-> ExportName])
    /\ exported_count' = exported_count + 1
    /\ eidx' = eidx + 1
    /\ UNCHANGED <<pc, files, fidx, all_buffers, buffer_order, all_grammars>>
    /\ UNCHANGED <<cfg, force_ext, exit_status, summary>>
    /\ UNCHANGED <<v_vars, n_vars, e_vars, i_vars>>

\* lines 248-266: write_text raises OSError, sys.exit(1).  The file that
\* could not be written is not there, or it is there and empty.
WriteFails ==
    /\ pc = "export"
    /\ eidx <= Len(buffer_order)
    /\ ~is_internal_buffer(ExportedText)
    /\ out_dir' \in {out_dir, DictSet(out_dir, ExportName, << >>)}
    /\ Exit1
    /\ UNCHANGED <<files, fidx, all_buffers, buffer_order, all_grammars>>
    /\ UNCHANGED <<cfg, force_ext, eidx, exported_count, written, summary>>
    /\ UNCHANGED <<v_vars, n_vars, e_vars, i_vars>>

\* lines 270-271: the loop is over, the count is reported, main returns
ReportSummary ==
    /\ pc = "export"
    /\ eidx > Len(buffer_order)
    /\ summary' = exported_count
    /\ exit_status' = 0
    /\ pc' = "done"
    /\ UNCHANGED <<files, fidx, all_buffers, buffer_order, all_grammars>>
    /\ UNCHANGED <<cfg, force_ext, eidx, exported_count, out_dir, written>>
    /\ UNCHANGED <<v_vars, n_vars, e_vars, i_vars>>

(***************************************************************************)
(* The specifications                                                      *)
(***************************************************************************)
Init == M_Init /\ V_Idle /\ N_Idle /\ E_Idle /\ I_Idle /\ R_Idle
Next == SkipFile \/ MergeFile \/ EndAggregation
Spec == Init /\ [][Next]_vars

InitVarint == V_Init /\ N_Idle /\ E_Idle /\ M_Idle /\ I_Idle /\ R_Idle
NextVarint == DecodeVarint
SpecVarint == InitVarint /\ [][NextVarint]_vars

InitNorm == N_Init /\ V_Idle /\ E_Idle /\ M_Idle /\ I_Idle /\ R_Idle
NextNorm == Normalize \/ NormalizeAgain \/ RecordPayload \/ ExportText
SpecNorm == InitNorm /\ [][NextNorm]_vars

InitExtract == E_Init /\ V_Idle /\ N_Idle /\ M_Idle /\ I_Idle /\ R_Idle
NextExtract == FindIds \/ RecordId \/ ReturnTexts
SpecExtract == InitExtract /\ [][NextExtract]_vars

InitInternal == I_Init /\ V_Idle /\ N_Idle /\ E_Idle /\ M_Idle /\ R_Idle
NextInternal == ClassifyText
SpecInternal == InitInternal /\ [][NextInternal]_vars

InitRun == R_Init /\ V_Idle /\ N_Idle /\ E_Idle /\ I_Idle
NextRun ==
    \/ RejectConfig \/ AcceptConfig \/ MakeOutDir \/ MakeOutDirFails \/ CollectFiles
    \/ SkipFile \/ MergeFile \/ EndAggregation
    \/ MakeTimestampDir \/ MakeTimestampDirFails
    \/ SkipInternalBuffer \/ WriteBuffer \/ WriteFails \/ ReportSummary
SpecRun == InitRun /\ [][NextRun]_vars

(***************************************************************************)
(* Properties of decode_varint_length (SpecVarint)                         *)
(***************************************************************************)
VarintReturned == v_pc = "returned"
VarintNothingDecodable ==
    \/ v_offset >= Len(v_data)
    \/ At(v_data, v_offset) >= HighBit /\ v_offset + 1 >= Len(v_data)

\* C7, as stated: every read is inside the buffer, consumed is 0, 1 or 2,
\* offset + consumed <= len(data), and (0, 0) is returned when the offset is out
\* of bounds or a first byte with the high bit set has no second byte.
C7_AsStated ==
    VarintReturned =>
        /\ \A i \in v_result.reads : 0 <= i /\ i < Len(v_data)
        /\ v_result.consumed \in {0, 1, 2}
        /\ v_offset + v_result.consumed <= Len(v_data)
        /\ VarintNothingDecodable => v_result.length = 0 /\ v_result.consumed = 0

\* C7, amended: as above, but offset + consumed <= len(data) is promised only
\* when a byte was consumed; an offset past the end returns (0, 0) and stays
\* past the end.
C7_VarintStaysInBuffer ==
    VarintReturned =>
        /\ \A i \in v_result.reads : 0 <= i /\ i < Len(v_data)
        /\ v_result.consumed \in {0, 1, 2}
        /\ v_result.consumed > 0 => v_offset + v_result.consumed <= Len(v_data)
        /\ VarintNothingDecodable => v_result.length = 0 /\ v_result.consumed = 0

\* a two-byte length whose second byte is the buffer's last byte
C7_Witness ==
    /\ VarintReturned
    /\ v_result.consumed = 2
    /\ v_offset + 2 = Len(v_data)
    /\ v_result.reads = {v_offset, v_offset + 1}

\* C8, as stated: every returned length lies in 0..16383.
C8_AsStated == VarintReturned => v_result.length \in 0..16383

\* C8, amended: every returned length lies in 0..32767; it lies in 0..16383
\* when one byte was consumed or the second byte has its high bit clear, and is
\* (byte1 & 0x7F) | (byte2 << 7) in the two-byte case.
C8_VarintLengthRange ==
    VarintReturned =>
        /\ v_result.length \in 0..32767
        /\ v_result.consumed = 1 => v_result.length = At(v_data, v_offset)
        /\ v_result.consumed = 2 =>
              /\ v_result.length % HighBit = At(v_data, v_offset) % HighBit
              /\ v_result.length \div HighBit = At(v_data, v_offset + 1)
              /\ At(v_data, v_offset + 1) < HighBit => v_result.length <= 16383

\* the bytes 0xFF 0xFF decode to 32767
C8_Witness == VarintReturned /\ v_result.consumed = 2 /\ v_result.length = 32767

(***************************************************************************)
(* Properties of normalize_text (SpecNorm)                                 *)
(***************************************************************************)
\* C9: the text normalize_text returns, for every blob, holds only printable
\* characters, newline, tab and carriage return, and neither starts nor ends
\* with whitespace.
C9_NormalizedTextIsClean ==
    n_pc \in {"normalized", "renormalized"} =>
        /\ \A i \in 1..Len(n_text) : IsPrintable(n_text[i]) \/ n_text[i] \in {10, 9, 13}
        /\ n_text # << >> => ~IsSpace(n_text[1]) /\ ~IsSpace(n_text[Len(n_text)])

\* a blob with a leading blank and a NUL, and a text left over
C9_Witness ==
    /\ n_pc = "normalized"
    /\ n_text # << >>
    /\ n_blob[1] = 32
    /\ \E i \in 1..Len(n_blob) : n_blob[i] = 0

\* C10: normalizing the UTF-8 encoding of a normalized text returns that text;
\* and the text the export step writes (normalize_text of the recorded bytes)
\* is the text the extractor recorded.
C10_NormalizeIdempotent ==
    /\ n_pc = "renormalized" => n_again = n_text
    /\ n_pc = "written" => n_written = n_clean

\* a payload that lost a byte in the extractor and holds a two-byte character
C10_Witness ==
    /\ n_pc = "written"
    /\ n_clean # << >>
    /\ Len(n_recorded) > Len(n_clean)
    /\ Len(n_blob) > Len(n_recorded)

(***************************************************************************)
(* Properties of the aggregation loop (Spec)                               *)
(***************************************************************************)
\* what the readable file number i yields
FileTexts(i) == extract_buffers_by_id(files[i].data)
FileGrammars(i) == extract_buffer_grammars(files[i].data)
ReadableFiles == {i \in 1..Len(files) : files[i].readable}
\* the non-empty texts and the grammar tags the files yield for bid
NonEmptyTexts(bid) ==
    {FileTexts(i)[bid] : i \in {j \in ReadableFiles : bid \in DOMAIN FileTexts(j)}} \ {<< >>}
GrammarTags(bid) ==
    {FileGrammars(i)[bid] : i \in {j \in ReadableFiles : bid \in DOMAIN FileGrammars(j)}}
YieldsText(i, bid, text) ==
    i \in ReadableFiles /\ bid \in DOMAIN FileTexts(i) /\ FileTexts(i)[bid] = text
YieldsGrammar(i, bid, grammar) ==
    i \in ReadableFiles /\ bid \in DOMAIN FileGrammars(i) /\ FileGrammars(i)[bid] = grammar
Merged == pc = "merged"

\* the two maps after the loop of lines 172-186 has run over the list fs
RECURSIVE AggregateTexts(_)
AggregateTexts(fs) ==
    IF fs = << >> THEN EmptyDict
    ELSE LET before == AggregateTexts(SubSeq(fs, 1, Len(fs) - 1))
             last == fs[Len(fs)]
         IN  IF last.readable THEN MergeBuffers(before, extract_buffers_by_id(last.data))
             ELSE before

RECURSIVE AggregateGrammars(_)
AggregateGrammars(fs) ==
    IF fs = << >> THEN EmptyDict
    ELSE LET before == AggregateGrammars(SubSeq(fs, 1, Len(fs) - 1))
             last == fs[Len(fs)]
         IN  IF last.readable THEN MergeGrammars(before, extract_buffer_grammars(last.data))
             ELSE before

\* the list files in another order
Reordered(perm) == [i \in 1..Len(files) |-> files[perm[i]]]

\* C1: once the merged text of an id is non-empty, no later file makes it
\* empty (or removes it); and when the files yield one non-empty text for an
\* id, besides empty ones, that text is the merged text in whatever order the
\* files were taken.
C1_NonEmptyTextSurvives ==
    /\ [][\A bid \in DOMAIN all_buffers :
             all_buffers[bid] # << >> =>
                 bid \in DOMAIN all_buffers' /\ all_buffers'[bid] # << >>]_vars
    /\ [](Merged =>
             \A bid \in BufferIds : \A text \in NonEmptyTexts(bid) :
                 NonEmptyTexts(bid) = {text} =>
                     bid \in DOMAIN all_buffers /\ all_buffers[bid] = text)

\* Hello for IdA from the first file, empty text for IdA from the second
C1_Witness ==
    /\ Merged
    /\ Len(files) = 2
    /\ YieldsText(1, IdA, Hello)
    /\ YieldsText(2, IdA, << >>)
    /\ all_buffers[IdA] = Hello

\* C2: at every point of the loop the merged grammar of an id is the grammar
\* of the last file taken so far whose grammar map holds the id; an id no such
\* file holds has no merged grammar.  (A file without the id changes nothing.)
C2_GrammarLastWins ==
    \A bid \in BufferIds :
        LET holding == {i \in ReadableFiles : i < fidx /\ bid \in DOMAIN FileGrammars(i)}
        IN  IF holding = {} THEN bid \notin DOMAIN all_grammars
            ELSE /\ bid \in DOMAIN all_grammars
                 /\ all_grammars[bid] =
                        FileGrammars(CHOOSE i \in holding : \A j \in holding : i >= j)[bid]

\* source.python from the first file, source.ruby from the second
C2_Witness ==
    /\ Merged
    /\ Len(files) = 2
    /\ YieldsGrammar(1, IdA, SourcePython)
    /\ YieldsGrammar(2, IdA, SourceRuby)
    /\ all_grammars[IdA] = SourceRuby

\* C3, as stated: the merged id -> text map is the same for every processing
\* order of the same files.
C3_AsStated ==
    Merged => \A perm \in Permutations(1..Len(files)) :
                  AggregateTexts(Reordered(perm)) = all_buffers

\* C3, amended: for every processing order of the same files the two merged
\* maps have the same ids; the merged text of an id is the same when the files
\* yield at most one distinct non-empty text for it, and its merged grammar is
\* the same when the files yield at most one distinct grammar tag for it.
C3_OrderAffectsOnlyConflicts ==
    Merged =>
        \A perm \in Permutations(1..Len(files)) :
            LET texts == AggregateTexts(Reordered(perm))
                grammars == AggregateGrammars(Reordered(perm))
            IN  /\ DOMAIN texts = DOMAIN all_buffers
                /\ DOMAIN grammars = DOMAIN all_grammars
                /\ \A bid \in DOMAIN all_buffers :
                      Cardinality(NonEmptyTexts(bid)) <= 1 => texts[bid] = all_buffers[bid]
                /\ \A bid \in DOMAIN all_grammars :
                      Cardinality(GrammarTags(bid)) <= 1 => grammars[bid] = all_grammars[bid]

\* two files with conflicting grammar tags for IdA, one of them with empty
\* text for IdA and the other with the only non-empty one
C3_Witness ==
    /\ Merged
    /\ Len(files) = 2
    /\ Cardinality(GrammarTags(IdA)) = 2
    /\ Cardinality(NonEmptyTexts(IdA)) = 1
    /\ YieldsText(1, IdA, << >>)
    /\ all_buffers[IdA] # << >>

\* C4, as stated: an id whose running text is non-empty keeps that text,
\* whatever the file merged next yields for it.
C4_AsStated ==
    [][\A bid \in DOMAIN all_buffers :
          all_buffers[bid] # << >> =>
              bid \in DOMAIN all_buffers' /\ all_buffers'[bid] = all_buffers[bid]]_vars

\* C4, amended: when a file's text map is merged, the running text of an id
\* becomes the file's text when that text is non-empty (also over a non-empty
\* running text) or when the id has no running text; otherwise, the file
\* yielding empty text or nothing for it, the running text is kept.
C4_MergeOverwritesWithNonEmpty ==
    [][(pc = "aggregate" /\ fidx <= Len(files) /\ files[fidx].readable) =>
          LET new == FileTexts(fidx)
          IN  /\ DOMAIN all_buffers' = (DOMAIN all_buffers) \cup (DOMAIN new)
              /\ \A bid \in DOMAIN all_buffers' :
                    all_buffers'[bid] =
                        IF bid \in DOMAIN new /\ new[bid] # << >> THEN new[bid]
                        ELSE IF bid \in DOMAIN all_buffers THEN all_buffers[bid]
                        ELSE << >>]_vars

\* Hello for IdA from the first file, another non-empty text from the second
C4_Witness ==
    /\ Merged
    /\ Len(files) = 2
    /\ YieldsText(1, IdA, Hello)
    /\ \E i \in {2} : i \in ReadableFiles /\ IdA \in DOMAIN FileTexts(i)
                        /\ FileTexts(i)[IdA] \notin {<< >>, Hello}
    /\ all_buffers[IdA] # Hello

(***************************************************************************)
(* Properties of extract_buffers_by_id (SpecExtract).  The record of an id *)
(* is described here in positions of the whole buffer e_data.              *)
(***************************************************************************)
\* What the buffer holds for bid: from the first id marker of bid the window
\* runs to at most SearchWindowSize bytes further; the record is well formed
\* when the window holds a text" marker, after the first one a length prefix
\* with all its bytes, a declared length of 1..10000, and the whole payload.
RecordOf(bid) ==
    LET markers == {p \in 0..(Len(e_data) - 1) : IdAt(e_data, p) = bid}
        marker_pos == CHOOSE p \in markers : \A q \in markers : p <= q
        window_end == Min(Len(e_data), marker_pos + 2000)
        texts == {q \in marker_pos..(window_end - Len(TextMarker)) :
                     MatchesAt(e_data, q, TextMarker)}
        prefix_pos == (CHOOSE q \in texts : \A r \in texts : q <= r) + Len(TextMarker)
        two_bytes == At(e_data, prefix_pos) >= 128
        declared == IF two_bytes
                    THEN (At(e_data, prefix_pos) - 128) + 128 * At(e_data, prefix_pos + 1)
                    ELSE At(e_data, prefix_pos)
        payload_pos == prefix_pos + (IF two_bytes THEN 2 ELSE 1)
        well_formed ==
            /\ texts # {}
            /\ prefix_pos < window_end
            /\ two_bytes => prefix_pos + 1 < window_end
            /\ declared >= 1
            /\ declared <= 10000
            /\ payload_pos + declared <= window_end
    IN  [well_formed |-> well_formed,
         payload |-> IF well_formed
                     THEN SubSeq(e_data, payload_pos + 1, payload_pos + declared)
                     ELSE << >>]
RecordWellFormed(bid) == RecordOf(bid).well_formed
DeclaredPayload(bid) == RecordOf(bid).payload

\* the buffer with its k-th record replaced by id"  <id>"text"\x05Hello
WithRecordWellFormed(k) ==
    BufferBytes([i \in 1..Len(e_recs) |->
                    IF i = k THEN WithId(WellFormed, e_recs[k].id) ELSE e_recs[i]])

\* C5, as stated: an id whose record is malformed is recorded with empty text,
\* and every other id is recorded with the text it would have were that record
\* well formed.
C5_AsStated ==
    e_pc = "returned" =>
        \A k \in 1..Len(e_recs) :
            ~RecordWellFormed(e_recs[k].id) =>
                /\ e_texts[e_recs[k].id] = << >>
                /\ \A other \in (DOMAIN e_texts) \ {e_recs[k].id} :
                      e_texts[other] = BufferText(WithRecordWellFormed(k), other)

\* C5, amended: an id whose record is malformed (no text" marker in the
\* window, no decodable length prefix, a length of 0 or above 10000, or a
\* payload that runs past the window) is recorded with empty text; recording
\* an id changes the text of no id recorded before; and every id found in the
\* buffer is recorded before the function returns.
C5_MalformedRecordIsEmpty ==
    /\ [](\A bid \in DOMAIN e_texts : ~RecordWellFormed(bid) => e_texts[bid] = << >>)
    /\ [](e_pc = "returned" =>
             DOMAIN e_texts = {e_recs[k].id : k \in 1..Len(e_recs)})
    /\ [][\A bid \in DOMAIN e_texts :
             bid \in DOMAIN e_texts' /\ e_texts'[bid] = e_texts[bid]]_vars

\* IdB's record declares five bytes and holds two; IdA's record is well formed
C5_Witness ==
    /\ e_pc = "returned"
    /\ e_recs = <<WithId(WellFormed, IdA), WithId(Short, IdB)>>
    /\ e_texts[IdB] = << >>
    /\ e_texts[IdA] = Hello

\* C6: an id whose record is well formed is recorded with the declared
\* payload, the bytes right after the length prefix, decoded (invalid
\* sequences dropped), without its non-printable characters other than
\* newline, tab and carriage return, and trimmed; id"  <id>"text"\x05Hello
\* gives Hello.
C6_WellFormedRecordIsPayload ==
    /\ \A bid \in DOMAIN e_texts :
          RecordWellFormed(bid) =>
              e_texts[bid] =
                  Utf8Encode(Strip(RemoveControls(Utf8Decode(DeclaredPayload(bid), "ignore"))))
    /\ (e_pc = "returned" /\ e_recs = <<WithId(WellFormed, IdA)>>) => e_texts[IdA] = Hello

\* a two-byte length prefix and a payload of 131 bytes
C6_Witness ==
    /\ e_pc = "returned"
    /\ e_recs = <<WithId(TwoByteLength, IdA)>>
    /\ Len(e_texts[IdA]) = 131
(***************************************************************************)
(* Properties of is_internal_buffer (SpecInternal).  Positions are those   *)
(* of the whole text i_text, counted from 0.                               *)
(***************************************************************************)
\* the length of the first line: the position of the first line feed
FirstLineLength ==
    LET feeds == {p \in 0..(Len(i_text) - 1) : At(i_text, p) = 10}
    IN  IF feeds = {} THEN Len(i_text) ELSE CHOOSE p \in feeds : \A q \in feeds : p <= q

\* the positions where a marker stands in the text, and where it ends
MarkerSpans ==
    UNION {{<<p, p + Len(m)>> : p \in {q \in 0..Len(i_text) : MatchesAt(i_text, q, m)}} :
              m \in InternalMarkers}

\* C11: is_internal_buffer(text) is true if and only if the text has at
\* least 10 characters and one of the four markers stands wholly within the
\* first 200 characters of the first line; a marker after the first line,
\* past the 200th character of the first line, or in a text of fewer than 10
\* characters does not make the text internal.
C11_InternalIffMarkerInFirstLine ==
    i_pc = "returned" =>
        /\ i_result <=>
              /\ Len(i_text) >= 10
              /\ \E span \in MarkerSpans : span[2] <= 200 /\ span[2] <= FirstLineLength
        /\ (\A span \in MarkerSpans : span[1] > FirstLineLength) => ~i_result
        /\ (\A span \in MarkerSpans : span[2] > 200) => ~i_result
        /\ Len(i_text) < 10 => ~i_result

\* Workspace starts at the 192nd character of the only line: its last
\* character is the 201st, and the text is not internal
C11_Witness ==
    /\ i_pc = "returned"
    /\ i_text = InternalText(FirstLineLimit - Len(Workspace) + 1, "none", Workspace, 0)
    /\ MarkerSpans = {<<192, 201>>}
    /\ ~i_result
(***************************************************************************)
(* Read failures in the aggregation loop (Spec)                            *)
(***************************************************************************)
\* the readable files among the first n of the list, in the list's order
ReadableAmong(n) == SelectSeq(SubSeq(files, 1, n), LAMBDA f : f.readable)

\* C12: a file that cannot be read changes neither merged map; the loop goes
\* on with the next file, one file at a time and in the list's order, to the
\* end of the list; and the merged maps are at every point those of a run
\* over the readable files met so far, at the end those of a run over the
\* readable files alone.
C12_UnreadableFileIsSkipped ==
    /\ [][(pc = "aggregate" /\ fidx <= Len(files) /\ ~files[fidx].readable) =>
             /\ all_buffers' = all_buffers
             /\ all_grammars' = all_grammars
             /\ fidx' = fidx + 1
             /\ pc' = "aggregate"]_vars
    /\ [][fidx' = fidx \/ fidx' = fidx + 1]_vars
    /\ [](Merged => fidx = Len(files) + 1)
    /\ [](pc \in {"aggregate", "merged"} =>
             /\ all_buffers = AggregateTexts(ReadableAmong(fidx - 1))
             /\ all_grammars = AggregateGrammars(ReadableAmong(fidx - 1)))

\* the first file cannot be read, the second one holds a buffer and a grammar tag
C12_Witness ==
    /\ Merged
    /\ Len(files) = 2
    /\ ~files[1].readable
    /\ files[2].readable
    /\ IdA \in DOMAIN all_buffers
    /\ all_buffers[IdA] = Hello
    /\ IdA \in DOMAIN all_grammars
(***************************************************************************)
(* Properties of a whole run of main (SpecRun)                             *)
(***************************************************************************)
\* the text line 220 computes for bid, and whether line 222 passes it over
TextOf(bid) == normalize_text(all_buffers[bid])
Exportable(bid) == ~is_internal_buffer(TextOf(bid))
\* the buffers the export loop has taken so far
Taken == {buffer_order[k] : k \in 1..(eidx - 1)}
Exporting == pc \in {"export", "done"}
WrittenIds == {written[k].id : k \in 1..Len(written)}
WrittenNames == {written[k].name : k \in 1..Len(written)}
\* every file of the directory is kept with its content
FilesRemain ==
    \A name \in DOMAIN out_dir : name \in DOMAIN out_dir' /\ out_dir'[name] = out_dir[name]

\* C13: when the write of a buffer does not succeed, the run ends at once
\* with exit status 1; after the exit nothing is written, retried or
\* reported; and the files written before stay in the output directory
\* with their content.
C13_WriteFailureAborts ==
    /\ [][(/\ pc = "export"
           /\ eidx <= Len(buffer_order)
           /\ Exportable(buffer_order[eidx])
           /\ written' = written) =>
              /\ pc' = "exited"
              /\ exit_status' = 1
              /\ eidx' = eidx
              /\ exported_count' = exported_count
              /\ summary' = NoSummary
              /\ FilesRemain]_vars
    /\ [][pc = "exited" => FALSE]_vars
    /\ [](pc = "exited" => exit_status = 1 /\ summary = NoSummary)
    /\ [](summary # NoSummary => \A bid \in DOMAIN all_buffers :
                                     Exportable(bid) => bid \in WrittenIds)
    /\ [][FilesRemain]_vars

\* the first buffer was written, the write of the second one failed, and a
\* third buffer that is not internal was never written
C13_Witness ==
    /\ pc = "exited"
    /\ Len(buffer_order) = 3
    /\ eidx = 2
    /\ Len(written) = 1
    /\ written[1].name \in DOMAIN out_dir
    /\ out_dir[written[1].name] = Hello
    /\ Exportable(buffer_order[3])
    /\ buffer_order[3] \notin WrittenIds

\* the sequence number a file name carries: the digits between __ and the dot
RECURSIVE DecimalValue(_)
DecimalValue(digits) ==
    IF digits = << >> THEN 0
    ELSE 10 * DecimalValue(SubSeq(digits, 1, Len(digits) - 1)) + (digits[Len(digits)] - 48)
NumberPart(name) ==
    LET after == PySlice(name, Find(name, <<95, 95>>) + 2, Len(name))
    IN  PySlice(after, 0, Find(after, <<46>>))
\* the extension of a file name: what follows the dot after the number
ExtensionPart(name) ==
    LET after == PySlice(name, Find(name, <<95, 95>>) + 2, Len(name))
    IN  PySlice(after, Find(after, <<46>>) + 1, Len(after))

\* C14: while no write fails, the files written are one for each buffer
\* taken so far whose text is not internal (empty text included), each with
\* that buffer's text; the k-th file written carries the number k - 1 in
\* three digits or more; the names are pairwise distinct, so the directory
\* holds as many files as were written; and the count reported at the end is
\* that number, with every buffer of the merged map taken.  One storage file
\* with one buffer that is not internal gives one file and a count of one.
C14_OneFilePerExportedBuffer ==
    Exporting =>
        /\ WrittenIds = {bid \in Taken : Exportable(bid)}
        /\ \A j, k \in 1..Len(written) : j # k =>
              /\ written[j].id # written[k].id
              /\ written[j].name # written[k].name
        /\ \A k \in 1..Len(written) :
              /\ Find(written[k].name, <<95, 95>>) # -1
              /\ Len(NumberPart(written[k].name)) >= 3
              /\ \A d \in 1..Len(NumberPart(written[k].name)) :
                    NumberPart(written[k].name)[d] \in 48..57
              /\ DecimalValue(NumberPart(written[k].name)) = k - 1
              /\ written[k].name \in DOMAIN out_dir
              /\ out_dir[written[k].name] = TextOf(written[k].id)
        /\ DOMAIN out_dir = WrittenNames
        /\ Cardinality(DOMAIN out_dir) = Len(written)
        /\ exported_count = Len(written)
        /\ pc = "done" =>
              /\ Taken = DOMAIN all_buffers
              /\ summary = Cardinality(DOMAIN out_dir)
              /\ summary = Cardinality({bid \in DOMAIN all_buffers : Exportable(bid)})
              /\ (Len(files) = 1 /\ Cardinality({bid \in DOMAIN all_buffers : Exportable(bid)}) = 1)
                    => (summary = 1 /\ Cardinality(DOMAIN out_dir) = 1)

\* three buffers, the second one internal: two files, numbered 000 and 001
C14_Witness ==
    /\ pc = "done"
    /\ Len(buffer_order) = 3
    /\ ~Exportable(buffer_order[2])
    /\ summary = 2
    /\ NumberPart(written[1].name) = <<48, 48, 48>>
    /\ NumberPart(written[2].name) = <<48, 48, 49>>
    /\ written[2].id = buffer_order[3]

\* C15: the extension of every file written is GRAMMAR_TO_EXTENSION[g] when
\* the merged grammar map holds a grammar g for the buffer and g is a key of
\* the table, and the validated fallback extension in every other case; the
\* fallback is the value of --force-ext without blanks around it and dots
\* before it, and one of the table's extensions.
C15_ExtensionByGrammarOrFallback ==
    /\ pc \notin {"config", "exited"} =>
          /\ force_ext \in {GRAMMAR_TO_EXTENSION[g] : g \in DOMAIN GRAMMAR_TO_EXTENSION}
          /\ \E blanks, dots \in 0..Len(cfg.force_ext) :
                cfg.force_ext = [k \in 1..blanks |-> 32] \o [k \in 1..dots |-> 46] \o force_ext
    /\ \A k \in 1..Len(written) :
          LET bid == written[k].id
              ext == ExtensionPart(written[k].name)
          IN  IF bid \in DOMAIN all_grammars /\ all_grammars[bid] \in DOMAIN GRAMMAR_TO_EXTENSION
              THEN ext = GRAMMAR_TO_EXTENSION[all_grammars[bid]]
              ELSE ext = force_ext

\* with --force-ext .py: IdB is tagged source.ruby and written as rb; IdA
\* is tagged source.elixir, which the table does not hold, and IdC has no
\* tag: both are written as py
C15_Witness ==
    /\ pc = "done"
    /\ cfg.force_ext = <<46, 112, 121>>
    /\ all_grammars = (IdA :> SourceElixir) @@ (IdB :> SourceRuby)
    /\ \E a, b, c \in 1..Len(written) :
          /\ written[a].id = IdA /\ ExtensionPart(written[a].name) = <<112, 121>>
          /\ written[b].id = IdB /\ ExtensionPart(written[b].name) = <<114, 98>>
          /\ written[c].id = IdC /\ ExtensionPart(written[c].name) = <<112, 121>>
\* the configuration errors: the input path is missing or no directory, the
\* fallback extension is empty or none of the table's extensions once its
\* blanks and leading dots are taken off, the directory holds no storage file
ConfigurationError ==
    \/ cfg.path \in {"missing", "file"}
    \/ cfg.force_ext = << >>
    \/ \A blanks, dots \in 0..Len(cfg.force_ext), ext \in ValidExtensions :
          cfg.force_ext # [k \in 1..blanks |-> 32] \o [k \in 1..dots |-> 46] \o ext
    \/ cfg.files = << >>
\* no storage file has been read or skipped, nothing has been extracted
NothingRead ==
    /\ fidx = 0 /\ files = << >>
    /\ all_buffers = EmptyDict /\ buffer_order = << >> /\ all_grammars = EmptyDict
NothingWritten == out_dir = EmptyDict /\ written = << >> /\ exported_count = 0
\* the phases of a run, in their order
Phase(p) ==
    CASE p = "config" -> 1
      [] p = "mkdir" -> 2
      [] p = "collect" -> 3
      [] p = "aggregate" -> 4
      [] p = "merged" -> 5
      [] p = "export" -> 6
      [] p = "done" -> 7
      [] p = "exited" -> 7

\* C16: a run never goes back to an earlier phase; with a configuration
\* error its first step is the exit with status 1, with no storage file read,
\* nothing extracted and nothing written; a storage file is read or merged
\* only while nothing has been written; and a file is written only when the
\* loop over the storage files has taken every one of them.
C16_PhasesInOrder ==
    /\ [][Phase(pc') >= Phase(pc)]_vars
    /\ [](ConfigurationError =>
             /\ pc \in {"config", "exited"}
             /\ pc = "exited" => exit_status = 1
             /\ NothingRead
             /\ NothingWritten)
    /\ [][(pc = "config" /\ ConfigurationError) => (pc' = "exited" /\ exit_status' = 1)]_vars
    /\ []((~ConfigurationError /\ pc # "config") => force_ext # << >>)
    /\ [][(fidx' # fidx \/ all_buffers' # all_buffers \/ all_grammars' # all_grammars) =>
             (NothingWritten /\ Phase(pc) <= 4)]_vars
    /\ [][(out_dir' # out_dir \/ written' # written) =>
             (pc = "export" /\ fidx = Len(files) + 1 /\ files = cfg.files
                /\ all_buffers' = all_buffers /\ all_grammars' = all_grammars)]_vars
    /\ [](~NothingWritten => fidx = Len(files) + 1 /\ Phase(pc) >= 6)

\* --force-ext exe with two storage files in the directory: exit status 1,
\* and neither file was read
C16_Witness ==
    /\ pc = "exited"
    /\ exit_status = 1
    /\ cfg.path = "dir"
    /\ cfg.force_ext = <<101, 120, 101>>
    /\ Len(cfg.files) = 2
    /\ NothingRead
    /\ NothingWritten
(***************************************************************************)
(* Repeated id markers in one buffer (SpecExtract)                         *)
(***************************************************************************)
\* the positions where the marker of bid stands in the buffer
Occurrences(bid) == {p \in 0..(Len(e_data) - 1) : IdAt(e_data, p) = bid}
FirstOccurrence(bid) == CHOOSE p \in Occurrences(bid) : \A q \in Occurrences(bid) : p <= q

\* What an occurrence at position marker_pos yields: the payload that the
\* window of at most 2000 bytes from marker_pos declares after its first
\* text" marker, cleaned as line 112-116 clean it, or the empty text when
\* the window declares none.
OccurrenceYields(marker_pos) ==
    LET window_end == Min(Len(e_data), marker_pos + 2000)
        texts == {q \in marker_pos..(window_end - Len(TextMarker)) :
                     MatchesAt(e_data, q, TextMarker)}
        prefix_pos == (CHOOSE q \in texts : \A r \in texts : q <= r) + Len(TextMarker)
        two_bytes == At(e_data, prefix_pos) >= 128
        declared == IF two_bytes
                    THEN (At(e_data, prefix_pos) - 128) + 128 * At(e_data, prefix_pos + 1)
                    ELSE At(e_data, prefix_pos)
        payload_pos == prefix_pos + (IF two_bytes THEN 2 ELSE 1)
        valid ==
            /\ texts # {}
            /\ prefix_pos < window_end
            /\ two_bytes => prefix_pos + 1 < window_end
            /\ declared >= 1
            /\ declared <= 10000
            /\ payload_pos + declared <= window_end
    IN  IF valid
        THEN Utf8Encode(Strip(RemoveControls(
                 Utf8Decode(SubSeq(e_data, payload_pos + 1, payload_pos + declared), "ignore"))))
        ELSE << >>

\* C17: the text recorded for an id is what the first occurrence of its
\* marker yields: it is the same for the window of the first occurrence taken
\* alone as a buffer, and it is empty whenever the first occurrence yields
\* the empty text, whatever the later occurrences of the marker yield.
C17_FirstOccurrenceDecides ==
    \A bid \in DOMAIN e_texts :
        LET occurrences == Occurrences(bid)
            first == CHOOSE p \in occurrences : \A q \in occurrences : p <= q
            yielded == OccurrenceYields(first)
        IN  /\ e_texts[bid] = yielded
            /\ e_texts[bid] = BufferText(PySlice(e_data, first, first + 2000), bid)
            /\ yielded = << >> =>
                  \A later \in occurrences \ {first} :
                      OccurrenceYields(later) # << >> => e_texts[bid] = << >>

\* the marker of IdA stands twice: the first occurrence declares a length
\* of 0, the second one is followed by the payload Hello
C17_Witness ==
    /\ e_pc = "returned"
    /\ e_recs = <<WithId(ZeroLength, IdA), WithId(WellFormed, IdA)>>
    /\ Cardinality(Occurrences(IdA)) = 2
    /\ \E later \in Occurrences(IdA) \ {FirstOccurrence(IdA)} : OccurrenceYields(later) = Hello
    /\ e_texts[IdA] = << >>
=============================================================================
